---- MODULE Spec2Model ----
(***************************************************************************)
(* A model of mcp-ical: the domain model (models.py), the Calendar Manager *)
(* (ical.py) over an EventKit event store, and the server (server.py).     *)
(*                                                                         *)
(* Optional values (Python's `X | None`) are sequences of length at most   *)
(* one: <<>> is None and <<v>> is the value v.  Times are whole days.      *)
(* Strings stand for themselves, so "" is the empty (falsy) string.        *)
(***************************************************************************)
EXTENDS Integers, Sequences, FiniteSets, TLC

VARIABLES
    calendars,   \* event_store.calendars(): sequence of [id, title]
    store,       \* the event store: identifier -> [event, future] native records
    nextId,      \* the identifier the store assigns to the next saved new event
    issued,      \* history: identifiers returned by a successful create_event
    deleted,     \* history: identifiers deleted by a successful delete_event
    last,        \* the last Manager call: [op, id, outcome, saves]
    req,         \* the request (or the arguments) of the last call
    ret,         \* what the last call returned: a set of Event projections
    ek,          \* the native record the last call worked on, as the call left it
    pre,         \* the store as it was when the last call started
    preCalendars, \* the calendars of the store when the last call started
    calls,       \* history: the native setters the last call called, what the
                 \* store replied to its save or remove, and what it yielded
    rule,        \* the arguments of the last RecurrenceRule construction
    ruleResult,  \* the outcome of that construction
    native,      \* the native rule to_ek_recurrence built from `rule`, if any
    projected,   \* the RecurrenceRule from_ekevent built from `native`, if any
    started,     \* server.py: main() is running the transport
    cache,       \* the lru_cache of get_calendar_manager: the Manager it holds, if any
    pc,          \* where the thread serving an invocation is
    invocation,  \* the invocation being served while a Manager is constructed
    invocations, \* history: the number of tool and resource invocations so far
    semaphore,   \* _request_access: the value of Semaphore(0)
    access_granted, \* _request_access: the nonlocal the completion writes
    callback,    \* the completion handed to the store: where the store is with it
    delivered,   \* the granted value the store passed to the completion, if any
    releases,    \* history: semaphore.release() calls of this handshake
    waited,      \* history: whether the constructing thread blocked in acquire()
    handshakes,  \* history: one record per finished CalendarManager() construction
    response     \* what the last invocation gave to the transport

vars == <<calendars, store, nextId, issued, deleted, last, req, ret, ek, pre, preCalendars, calls,
          rule, ruleResult,
          native, projected, started, cache, pc, invocation, invocations, semaphore,
          access_granted, callback, delivered, releases, waited, handshakes, response>>

storeVars == <<calendars, store, nextId, issued, deleted, last, req, ret, ek, pre, preCalendars, calls>>

ruleVars == <<rule, ruleResult, native, projected>>

accessVars == <<pc, invocation, semaphore, access_granted, callback, delivered, releases, waited>>

adapterVars == <<started, cache, invocations, handshakes, response, accessVars>>

----------------------------------------------------------------------------
(* Bounds of the model *)

MaxEvents == 2

Horizon == 4

MaxInvocations == 3


----------------------------------------------------------------------------
(* Optional values and Python truthiness *)

None == <<>>

Some(v) == <<v>>

IsSet(x) == x # None

\* `if x:` on an optional string: neither None nor "".
TruthyStr(x) == IsSet(x) /\ x[1] # ""

\* `if x:` on an optional bool: True only.
TruthyBool(x) == IsSet(x) /\ x[1]

\* `if x:` on an optional list: neither None nor [].
TruthyList(x) == IsSet(x) /\ Len(x[1]) > 0

\* `if x:` on an optional int: neither None nor 0.
TruthyInt(x) == IsSet(x) /\ x[1] # 0

\* int(a / b) for b > 0: Python's int() truncates toward zero.
TruncDiv(a, b) == IF a >= 0 THEN a \div b ELSE -((-a) \div b)

----------------------------------------------------------------------------
(* models.py: Frequency, Weekday, RecurrenceRule *)

DAILY == 0

WEEKLY == 1

MONTHLY == 2

YEARLY == 3

Frequency == {DAILY, WEEKLY, MONTHLY, YEARLY}

Weekday == 1..7

\* @model_validator(mode="after") of RecurrenceRule
validate_end_conditions_truthy(r) ==
    IF IsSet(r.end_date) /\ TruthyInt(r.occurrence_count)
    THEN "ValidationError" ELSE "ok"

validate_end_conditions(r) ==
    IF r.end_date # None /\ r.occurrence_count # None
    THEN "ValidationError" ELSE "ok"

\* RecurrenceRule(...): the field validation, then the model validator.
RecurrenceRule(r) ==
    IF r.frequency \notin Frequency THEN "ValidationError"
    ELSE IF r.interval < 1 THEN "ValidationError"
    ELSE IF IsSet(r.days_of_week) /\ \E i \in 1..Len(r.days_of_week[1]) : r.days_of_week[1][i] \notin Weekday
         THEN "ValidationError"
    ELSE validate_end_conditions(r)

\* EKRecurrenceEnd: by date (occurrenceCount() is 0) or by count (endDate() is nil).
recurrenceEndWithEndDate(d) == [endDate |-> Some(d), occurrenceCount |-> 0]

recurrenceEndWithOccurrenceCount(n) == [endDate |-> None, occurrenceCount |-> n]

to_ek_recurrence(r) ==
    LET end == IF IsSet(r.end_date) THEN Some(recurrenceEndWithEndDate(r.end_date[1]))
               ELSE IF TruthyInt(r.occurrence_count)
                    THEN Some(recurrenceEndWithOccurrenceCount(r.occurrence_count[1]))
                    ELSE None
        ek_days == IF TruthyList(r.days_of_week) THEN r.days_of_week ELSE None
    IN  [frequency |-> r.frequency, interval |-> r.interval,
         daysOfTheWeek |-> ek_days, recurrenceEnd |-> end]

\* Event.from_ekevent, the recurrence part: native rule -> RecurrenceRule fields.
from_ek_recurrence(nr) ==
    LET end == nr.recurrenceEnd
        days == IF TruthyList(nr.daysOfTheWeek) THEN nr.daysOfTheWeek ELSE None
    IN  [frequency |-> nr.frequency, interval |-> nr.interval, days_of_week |-> days,
         end_date |-> IF IsSet(end) /\ end[1].occurrenceCount = 0 THEN end[1].endDate ELSE None,
         occurrence_count |-> IF IsSet(end) /\ end[1].occurrenceCount # 0
                              THEN Some(end[1].occurrenceCount) ELSE None]

----------------------------------------------------------------------------
(* Construction of RecurrenceRule values *)

RuleFrequencies == Frequency \cup {4}

RuleIntervals == 0..2

RuleEndDates == {None, Some(2), Some(3)}

RuleCounts == {None, Some(0), Some(1), Some(3)}

RuleDays == {None, Some(<<>>), Some(<<2>>), Some(<<2, 4>>)}

RuleInputs == [frequency : RuleFrequencies, interval : RuleIntervals, end_date : RuleEndDates,
               occurrence_count : RuleCounts, days_of_week : RuleDays]

NoRule == [frequency |-> DAILY, interval |-> 1, end_date |-> None,
           occurrence_count |-> None, days_of_week |-> None]

Construct(r) ==
    /\ rule' = r
    /\ ruleResult' = RecurrenceRule(r)
    /\ native' = None
    /\ projected' = None
    /\ UNCHANGED <<storeVars, adapterVars>>

\* A constructed rule goes to the store and comes back: to_ek_recurrence
\* builds the native rule, from_ekevent reads it and constructs a
\* RecurrenceRule from what it read.
RoundTrip ==
    /\ ruleResult = "ok"
    /\ native = None
    /\ LET nr == to_ek_recurrence(rule)
           p == from_ek_recurrence(nr)
       IN  /\ native' = Some(nr)
           /\ projected' = Some([outcome |-> RecurrenceRule(p), rule |-> p])
    /\ UNCHANGED <<rule, ruleResult>>
    /\ UNCHANGED <<storeVars, adapterVars>>

----------------------------------------------------------------------------
(* The requests: CreateEventRequest and UpdateEventRequest have the same   *)
(* fields; every field is an optional value.                               *)

EmptyRequest ==
    [title |-> None, start_time |-> None, end_time |-> None, calendar_name |-> None,
     location |-> None, notes |-> None, alarms_minutes_offsets |-> None, url |-> None,
     all_day |-> None, recurrence_rule |-> None]

----------------------------------------------------------------------------
(* The native records of the store (EventKit) *)

EKSpanThisEvent == "EKSpanThisEvent"

EKSpanFutureEvents == "EKSpanFutureEvents"

\* EKEvent.eventWithEventStore_: a new native event, nothing set.
eventWithEventStore ==
    [title |-> None, startDate |-> None, endDate |-> None, notes |-> None,
     location |-> None, URL |-> None, allDay |-> FALSE, alarms |-> <<>>,
     recurrenceRule |-> None, calendar |-> None, eventIdentifier |-> None]

\* event_store.defaultCalendarForNewEvents(): the first calendar of the store.
defaultCalendarForNewEvents(cals) == cals[1].id

_find_calendar_by_name(cals, calendar_name) ==
    IF \E i \in 1..Len(cals) : cals[i].title = calendar_name
    THEN LET i == CHOOSE i \in 1..Len(cals) :
                      /\ cals[i].title = calendar_name
                      /\ \A j \in 1..(i - 1) : cals[j].title # calendar_name
         IN  Some(cals[i].id)
    ELSE None

\* ekevent.calendar().title()
CalendarTitle(cals, cid) ==
    IF IsSet(cid) /\ \E i \in 1..Len(cals) : cals[i].id = cid[1]
    THEN Some(cals[CHOOSE i \in 1..Len(cals) : cals[i].id = cid[1]].title)
    ELSE None

\* event_store.eventWithIdentifier_: the first occurrence of the event, or nil.
eventWithIdentifier(st, identifier) ==
    IF identifier \in DOMAIN st THEN Some(st[identifier].event) ELSE None

\* event_store.saveEvent_span_error_ succeeding.  A new event gets the next
\* identifier and the store may add its own default alarms; a saved event is
\* committed for this occurrence only, or for it and the future occurrences.
saveEvent_span(st, ekevent, span, nid, defaultAlarms) ==
    IF ekevent.eventIdentifier = None
    THEN LET saved == [ekevent EXCEPT !.eventIdentifier = Some(nid),
                                      !.alarms = ekevent.alarms \o defaultAlarms]
         IN  st @@ (nid :> [event |-> saved, future |-> saved])
    ELSE LET id == ekevent.eventIdentifier[1]
         IN  IF span = EKSpanFutureEvents
             THEN [st EXCEPT ![id] = [event |-> ekevent, future |-> ekevent]]
             ELSE [st EXCEPT ![id] = [event |-> ekevent, future |-> st[id].future]]

\* event_store.removeEvent_span_error_(ekevent, EKSpanFutureEvents) succeeding on
\* the first occurrence: the event and its later occurrences are gone.
removeEvent_span(st, ekevent) ==
    [i \in DOMAIN st \ {ekevent.eventIdentifier[1]} |-> st[i]]

\* Days between two occurrences of a recurrence.
RecurrenceStep(nr) ==
    IF nr.frequency = DAILY THEN nr.interval
    ELSE IF nr.frequency = WEEKLY THEN 7 * nr.interval
    ELSE IF nr.frequency = MONTHLY THEN 30 * nr.interval
    ELSE 365 * nr.interval

\* Whether the series of `ekevent` has an occurrence number k (0 is the first).
HasOccurrence(ekevent, k) ==
    IF k = 0 THEN TRUE
    ELSE IF ekevent.recurrenceRule = None THEN FALSE
    ELSE LET nr == ekevent.recurrenceRule[1]
             end == nr.recurrenceEnd
         IN  IF end = None THEN TRUE
             ELSE IF end[1].occurrenceCount # 0 THEN k < end[1].occurrenceCount
             ELSE ekevent.startDate[1] + k * RecurrenceStep(nr) <= end[1].endDate[1]

\* Occurrence k of a stored event: the first from `event`, the later from `future`.
OccurrenceOf(entry, k) ==
    IF k = 0 THEN entry.event
    ELSE LET shift == k * RecurrenceStep(entry.future.recurrenceRule[1])
         IN  [entry.future EXCEPT !.startDate = Some(entry.future.startDate[1] + shift),
                                  !.endDate = Some(entry.future.endDate[1] + shift)]

\* predicateForEventsWithStartDate_endDate_calendars_ + eventsMatchingPredicate_:
\* the occurrences that overlap [start, end], of the calendars given (None: all).
eventsMatchingPredicate(st, start, end, cals) ==
    {OccurrenceOf(st[id], k) : <<id, k>> \in
        {p \in (DOMAIN st) \X (0..end) :
            /\ HasOccurrence(st[p[1]].future, p[2])
            /\ LET occ == OccurrenceOf(st[p[1]], p[2])
               IN  /\ occ.startDate[1] <= end
                   /\ occ.endDate[1] >= start
                   /\ (cals = None \/ occ.calendar = cals)}}

----------------------------------------------------------------------------
(* models.py: Event.from_ekevent *)

\* minutes = int(-offset_seconds / 60)
alarm_minutes(offset_seconds) == TruncDiv(-offset_seconds, 60)

from_ekevent(cals, ekevent) ==
    [title |-> ekevent.title,
     start_time |-> ekevent.startDate,
     end_time |-> ekevent.endDate,
     calendar_name |-> CalendarTitle(cals, ekevent.calendar),
     location |-> ekevent.location,
     notes |-> ekevent.notes,
     url |-> ekevent.URL,
     all_day |-> ekevent.allDay,
     alarms_minutes_offsets |-> [i \in 1..Len(ekevent.alarms) |-> alarm_minutes(ekevent.alarms[i])],
     recurrence_rule |-> IF IsSet(ekevent.recurrenceRule)
                         THEN Some(from_ek_recurrence(ekevent.recurrenceRule[1]))
                         ELSE None,
     identifier |-> ekevent.eventIdentifier]

----------------------------------------------------------------------------
(* ical.py: CalendarManager *)

\* What a call yields: its outcome ("ok" or the exception raised), the native
\* record it worked on, the store it leaves, what it returns, the number of
\* save/remove calls it issued to the store and the identifier concerned.
Result(outcome, ekevent, st, returned, saves, id) ==
    [outcome |-> outcome, ek |-> ekevent, store |-> st, ret |-> returned,
     saves |-> saves, id |-> id]

find_event_by_id_result(cals, st, identifier) ==
    LET ekevent == eventWithIdentifier(st, identifier)
    IN  IF ekevent = None THEN {} ELSE {from_ekevent(cals, ekevent[1])}

list_events_all_calendars(cals, st, start_time, end_time, calendar_name) ==
    LET calendar == IF TruthyStr(calendar_name)
                    THEN _find_calendar_by_name(cals, calendar_name[1]) ELSE None
    IN  IF TruthyStr(calendar_name) /\ calendar = None
        THEN Result("NoSuchCalendarException", eventWithEventStore, st, {}, 0, 0)
        ELSE Result("ok", eventWithEventStore, st,
                    {from_ekevent(cals, e) : e \in eventsMatchingPredicate(st, start_time, end_time, None)},
                    0, 0)

list_events_result(cals, st, start_time, end_time, calendar_name) ==
    LET calendar == IF TruthyStr(calendar_name)
                    THEN _find_calendar_by_name(cals, calendar_name[1]) ELSE None
    IN  IF TruthyStr(calendar_name) /\ calendar = None
        THEN Result("NoSuchCalendarException", eventWithEventStore, st, {}, 0, 0)
        ELSE Result("ok", eventWithEventStore, st,
                    {from_ekevent(cals, e) : e \in eventsMatchingPredicate(st, start_time, end_time, calendar)},
                    0, 0)

\* create_event, line 106: the relative offset of the alarm for `minutes`.
create_alarm_offset_nine_hours(new_event, minutes) ==
    -60 * (IF TruthyBool(new_event.all_day) THEN minutes + 9 * 60 ELSE minutes)

create_alarm_offset(new_event, minutes) == -60 * minutes

\* create_event, lines 88-110: the new native event with the request's fields.
create_ekevent(new_event) ==
    LET e0 == [eventWithEventStore EXCEPT !.title = new_event.title,
                                          !.startDate = new_event.start_time,
                                          !.endDate = new_event.end_time]
        e1 == IF TruthyStr(new_event.notes) THEN [e0 EXCEPT !.notes = new_event.notes] ELSE e0
        e2 == IF TruthyStr(new_event.location) THEN [e1 EXCEPT !.location = new_event.location] ELSE e1
        e3 == IF TruthyStr(new_event.url) THEN [e2 EXCEPT !.URL = new_event.url] ELSE e2
        e4 == IF TruthyBool(new_event.all_day) THEN [e3 EXCEPT !.allDay = new_event.all_day[1]] ELSE e3
        e5 == IF TruthyList(new_event.alarms_minutes_offsets)
              THEN LET ms == new_event.alarms_minutes_offsets[1]
                   IN  [e4 EXCEPT !.alarms = e4.alarms \o
                            [i \in 1..Len(ms) |-> create_alarm_offset(new_event, ms[i])]]
              ELSE e4
    IN  IF IsSet(new_event.recurrence_rule)
        THEN [e5 EXCEPT !.recurrenceRule = Some(to_ek_recurrence(new_event.recurrence_rule[1]))]
        ELSE e5

\* create_event, lines 112-121: the calendar of the new event, None when the
\* named calendar does not exist.
create_calendar_default_when_missing(cals, new_event) ==
    IF TruthyStr(new_event.calendar_name)
       /\ IsSet(_find_calendar_by_name(cals, new_event.calendar_name[1]))
    THEN _find_calendar_by_name(cals, new_event.calendar_name[1])
    ELSE Some(defaultCalendarForNewEvents(cals))

create_calendar_last_listed(cals, new_event) ==
    IF TruthyStr(new_event.calendar_name)
    THEN _find_calendar_by_name(cals, new_event.calendar_name[1])
    ELSE Some(cals[Len(cals)].id)

create_calendar(cals, new_event) ==
    IF TruthyStr(new_event.calendar_name)
    THEN _find_calendar_by_name(cals, new_event.calendar_name[1])
    ELSE Some(defaultCalendarForNewEvents(cals))

create_event_retry(cals, st, nid, new_event, saveOk, defaultAlarms) ==
    LET ekevent == create_ekevent(new_event)
        calendar == create_calendar(cals, new_event)
    IN  IF calendar = None
        THEN Result("NoSuchCalendarException", ekevent, st, {}, 0, 0)
        ELSE LET e == [ekevent EXCEPT !.calendar = calendar]
             IN  IF ~saveOk
                 THEN Result("Exception", e, st, {}, 2, 0)
                 ELSE LET st2 == saveEvent_span(st, e, EKSpanThisEvent, nid, defaultAlarms)
                      IN  Result("ok", st2[nid].event, st2,
                                 {from_ekevent(cals, st2[nid].event)}, 1, nid)

create_event_result(cals, st, nid, new_event, saveOk, defaultAlarms) ==
    LET ekevent == create_ekevent(new_event)
        calendar == create_calendar(cals, new_event)
    IN  IF calendar = None
        THEN Result("NoSuchCalendarException", ekevent, st, {}, 0, 0)
        ELSE LET e == [ekevent EXCEPT !.calendar = calendar]
             IN  IF ~saveOk
                 THEN Result("Exception", e, st, {}, 1, 0)
                 ELSE LET st2 == saveEvent_span(st, e, EKSpanThisEvent, nid, defaultAlarms)
                      IN  Result("ok", st2[nid].event, st2,
                                 {from_ekevent(cals, st2[nid].event)}, 1, nid)

\* update_event, lines 157-170: the setters of the fields that are not None.
update_fields(ekevent, request) ==
    LET e1 == IF request.title # None THEN [ekevent EXCEPT !.title = request.title] ELSE ekevent
        e2 == IF request.start_time # None THEN [e1 EXCEPT !.startDate = request.start_time] ELSE e1
        e3 == IF request.end_time # None THEN [e2 EXCEPT !.endDate = request.end_time] ELSE e2
        e4 == IF request.location # None THEN [e3 EXCEPT !.location = request.location] ELSE e3
        e5 == IF request.notes # None THEN [e4 EXCEPT !.notes = request.notes] ELSE e4
        e6 == IF request.url # None THEN [e5 EXCEPT !.URL = request.url] ELSE e5
    IN  IF request.all_day # None THEN [e6 EXCEPT !.allDay = request.all_day[1]] ELSE e6

\* update_event, lines 173-178: [found, ek]; found is FALSE when the request
\* names a calendar that does not exist.
update_calendar_not_set(cals, ekevent, request) ==
    IF TruthyStr(request.calendar_name)
    THEN [found |-> IsSet(_find_calendar_by_name(cals, request.calendar_name[1])), ek |-> ekevent]
    ELSE [found |-> TRUE, ek |-> ekevent]

update_calendar(cals, ekevent, request) ==
    IF TruthyStr(request.calendar_name)
    THEN LET calendar == _find_calendar_by_name(cals, request.calendar_name[1])
         IN  IF IsSet(calendar)
             THEN [found |-> TRUE, ek |-> [ekevent EXCEPT !.calendar = calendar]]
             ELSE [found |-> FALSE, ek |-> ekevent]
    ELSE [found |-> TRUE, ek |-> ekevent]

\* update_event, lines 181-182
update_recurrence(ekevent, request) ==
    IF request.recurrence_rule # None
    THEN [ekevent EXCEPT !.recurrenceRule = Some(to_ek_recurrence(request.recurrence_rule[1]))]
    ELSE ekevent

\* update_event, line 189
actual_minutes(request, minutes) ==
    IF TruthyBool(request.all_day) THEN minutes - 1440 ELSE minutes

\* update_event, lines 185-192
update_alarms_merge(ekevent, request) ==
    IF request.alarms_minutes_offsets # None
    THEN LET ms == request.alarms_minutes_offsets[1]
         IN  [ekevent EXCEPT !.alarms = ekevent.alarms \o
                  [i \in 1..Len(ms) |-> -60 * actual_minutes(request, ms[i])]]
    ELSE ekevent

update_alarms(ekevent, request) ==
    IF request.alarms_minutes_offsets # None
    THEN LET ms == request.alarms_minutes_offsets[1]
         IN  [ekevent EXCEPT !.alarms = [i \in 1..Len(ms) |-> -60 * actual_minutes(request, ms[i])]]
    ELSE ekevent

\* update_event, line 196: the commit scope of the save.
update_span_this_event == EKSpanThisEvent

update_span == EKSpanFutureEvents

update_event_result(cals, st, event_id, request, saveOk) ==
    LET existing == eventWithIdentifier(st, event_id)
    IN  IF existing = None
        THEN Result("NoSuchEventException", eventWithEventStore, st, {}, 0, event_id)
        ELSE LET e1 == update_fields(existing[1], request)
                 c == update_calendar(cals, e1, request)
             IN  IF ~c.found
                 THEN Result("NoSuchCalendarException", c.ek, st, {}, 0, event_id)
                 ELSE LET e2 == update_alarms(update_recurrence(c.ek, request), request)
                      IN  IF ~saveOk
                          THEN Result("Exception", e2, st, {}, 1, event_id)
                          ELSE Result("ok", e2, saveEvent_span(st, e2, update_span, event_id, <<>>),
                                      {from_ekevent(cals, e2)}, 1, event_id)

delete_event_idempotent(cals, st, event_id, removeOk) ==
    LET existing == eventWithIdentifier(st, event_id)
    IN  IF existing = None
        THEN Result("ok", eventWithEventStore, st, {}, 0, event_id)
        ELSE IF ~removeOk
             THEN Result("Exception", existing[1], st, {}, 1, event_id)
             ELSE Result("ok", existing[1], removeEvent_span(st, existing[1]), {}, 1, event_id)

delete_event_swallow(cals, st, event_id, removeOk) ==
    LET existing == eventWithIdentifier(st, event_id)
    IN  IF existing = None
        THEN Result("NoSuchEventException", eventWithEventStore, st, {}, 0, event_id)
        ELSE IF ~removeOk
             THEN Result("ok", existing[1], st, {}, 1, event_id)
             ELSE Result("ok", existing[1], removeEvent_span(st, existing[1]), {}, 1, event_id)

delete_event_result(cals, st, event_id, removeOk) ==
    LET existing == eventWithIdentifier(st, event_id)
    IN  IF existing = None
        THEN Result("NoSuchEventException", eventWithEventStore, st, {}, 0, event_id)
        ELSE IF ~removeOk
             THEN Result("Exception", existing[1], st, {}, 1, event_id)
             ELSE Result("ok", existing[1], removeEvent_span(st, existing[1]), {}, 1, event_id)

----------------------------------------------------------------------------
(* Exceptions and return values: what a call yields to its caller *)

Raised(class, msg) == [raised |-> TRUE, class |-> class, msg |-> msg, value |-> None]

Returned(v) == [raised |-> FALSE, class |-> "", msg |-> "", value |-> Some(v)]

\* isinstance(e, class) for the exception classes raised here: ValueError,
\* NoSuchCalendarException and NoSuchEventException all derive from Exception.
IsInstance(e, class) == class = "Exception" \/ e.class = class

NoSuchCalendarException(calendar_name) ==
    Raised("NoSuchCalendarException", "Calendar: " \o calendar_name \o " does not exist")

NoSuchEventException(event_id) ==
    Raised("NoSuchEventException", "Event with id: " \o ToString(event_id) \o " does not exist")

\* The error text the store reports with a failed call.
StoreError == "The store reported an error"

\* What a method of the Manager yields to its caller, from its Result.
Yielded(r, calendar_name, value) ==
    IF r.outcome = "ok" THEN Returned(value)
    ELSE IF r.outcome = "NoSuchCalendarException" THEN NoSuchCalendarException(calendar_name[1])
    ELSE IF r.outcome = "NoSuchEventException" THEN NoSuchEventException(r.id)
    ELSE Raised("Exception", StoreError)

----------------------------------------------------------------------------
(* The traffic of a call with the native objects and the store *)

NoTraffic == [setters |-> {}, reply |-> "none", error |-> "", yielded |-> Returned({})]

\* create_event, lines 90-122: the native setters called on the new event.
create_setters_all_day_always(cals, new_event) ==
    {"setTitle_", "setStartDate_", "setEndDate_", "setAllDay_"}
    \cup (IF TruthyStr(new_event.notes) THEN {"setNotes_"} ELSE {})
    \cup (IF TruthyStr(new_event.location) THEN {"setLocation_"} ELSE {})
    \cup (IF TruthyStr(new_event.url) THEN {"setURL_"} ELSE {})
    \cup (IF TruthyList(new_event.alarms_minutes_offsets) THEN {"addAlarm_"} ELSE {})
    \cup (IF IsSet(new_event.recurrence_rule) THEN {"setRecurrenceRule_"} ELSE {})
    \cup (IF IsSet(create_calendar(cals, new_event)) THEN {"setCalendar_"} ELSE {})

create_setters(cals, new_event) ==
    {"setTitle_", "setStartDate_", "setEndDate_"}
    \cup (IF TruthyStr(new_event.notes) THEN {"setNotes_"} ELSE {})
    \cup (IF TruthyStr(new_event.location) THEN {"setLocation_"} ELSE {})
    \cup (IF TruthyStr(new_event.url) THEN {"setURL_"} ELSE {})
    \cup (IF TruthyBool(new_event.all_day) THEN {"setAllDay_"} ELSE {})
    \cup (IF TruthyList(new_event.alarms_minutes_offsets) THEN {"addAlarm_"} ELSE {})
    \cup (IF IsSet(new_event.recurrence_rule) THEN {"setRecurrenceRule_"} ELSE {})
    \cup (IF IsSet(create_calendar(cals, new_event)) THEN {"setCalendar_"} ELSE {})

\* update_event, lines 157-192: the native setters called on the event found.
update_setters(cals, st, event_id, request) ==
    IF eventWithIdentifier(st, event_id) = None THEN {}
    ELSE LET named == TruthyStr(request.calendar_name)
             found == named /\ IsSet(_find_calendar_by_name(cals, request.calendar_name[1]))
         IN  (IF request.title # None THEN {"setTitle_"} ELSE {})
             \cup (IF request.start_time # None THEN {"setStartDate_"} ELSE {})
             \cup (IF request.end_time # None THEN {"setEndDate_"} ELSE {})
             \cup (IF request.location # None THEN {"setLocation_"} ELSE {})
             \cup (IF request.notes # None THEN {"setNotes_"} ELSE {})
             \cup (IF request.url # None THEN {"setURL_"} ELSE {})
             \cup (IF request.all_day # None THEN {"setAllDay_"} ELSE {})
             \cup (IF found THEN {"setCalendar_"} ELSE {})
             \cup (IF named /\ ~found THEN {}
                   ELSE (IF request.recurrence_rule # None THEN {"setRecurrenceRule_"} ELSE {})
                        \cup (IF request.alarms_minutes_offsets # None THEN {"setAlarms_"} ELSE {}))

\* The traffic of a call that yielded r: the store was asked to save or remove
\* when r counts a store call, and replied success or, with its error, failure.
Traffic(setters, request, r, storeOk) ==
    [setters |-> setters,
     reply |-> IF r.saves = 0 THEN "none" ELSE IF storeOk THEN "success" ELSE "failure",
     error |-> IF r.saves > 0 /\ ~storeOk THEN StoreError ELSE "",
     yielded |-> Yielded(r, request.calendar_name, r.ret)]

----------------------------------------------------------------------------
(* The calls of the Manager as steps *)

\* A method of a Manager runs against the store and yields r.
ManagerCall(op, request, r) ==
    /\ last' = [op |-> op, id |-> r.id, outcome |-> r.outcome, saves |-> r.saves]
    /\ req' = request
    /\ ret' = r.ret
    /\ ek' = r.ek
    /\ pre' = store
    /\ preCalendars' = calendars
    /\ store' = r.store
    /\ UNCHANGED <<calendars, ruleVars>>

\* The method is called on a Manager directly, not through the server.
Call(op, request, r) ==
    /\ ManagerCall(op, request, r)
    /\ UNCHANGED adapterVars

create_event(new_event, saveOk, defaultAlarms) ==
    /\ nextId <= MaxEvents
    /\ LET r == create_event_result(calendars, store, nextId, new_event, saveOk, defaultAlarms)
       IN  /\ Call("create_event", new_event, r)
           /\ calls' = Traffic(create_setters(calendars, new_event), new_event, r, saveOk)
           /\ nextId' = IF r.outcome = "ok" THEN nextId + 1 ELSE nextId
           /\ issued' = IF r.outcome = "ok" THEN issued \cup {r.id} ELSE issued
           /\ UNCHANGED deleted

update_event(event_id, request, saveOk) ==
    LET r == update_event_result(calendars, store, event_id, request, saveOk)
    IN  /\ Call("update_event", request, r)
        /\ calls' = Traffic(update_setters(calendars, store, event_id, request), request, r, saveOk)
        /\ UNCHANGED <<nextId, issued, deleted>>

delete_event(event_id, removeOk) ==
    LET r == delete_event_result(calendars, store, event_id, removeOk)
    IN  /\ Call("delete_event", EmptyRequest, r)
        /\ calls' = Traffic({}, EmptyRequest, r, removeOk)
        /\ deleted' = IF r.outcome = "ok" THEN deleted \cup {event_id} ELSE deleted
        /\ UNCHANGED <<nextId, issued>>

find_event_by_id(identifier) ==
    /\ Call("find_event_by_id", EmptyRequest,
            Result("ok", eventWithEventStore, store,
                   find_event_by_id_result(calendars, store, identifier), 0, identifier))
    /\ calls' = NoTraffic
    /\ UNCHANGED <<nextId, issued, deleted>>

list_events(start_time, end_time, calendar_name) ==
    /\ Call("list_events",
            [EmptyRequest EXCEPT !.start_time = Some(start_time), !.end_time = Some(end_time),
                                 !.calendar_name = calendar_name],
            list_events_result(calendars, store, start_time, end_time, calendar_name))
    /\ calls' = NoTraffic
    /\ UNCHANGED <<nextId, issued, deleted>>

----------------------------------------------------------------------------
(* ical.py: CalendarManager.__init__, _request_access, list_calendar_names *)

\* semaphore.acquire() can return: the semaphore is above zero.
acquire_nonblocking(sem) == TRUE

acquire(sem) == sem > 0

\* __init__, lines 40-45, once _request_access has returned `access`: what the
\* constructor yields and the commands it ran in a subprocess on the way.
CalendarManager_init_unchecked(access) ==
    [outcome |-> Returned("CalendarManager"), runs |-> <<>>]

CalendarManager_init(access) ==
    IF ~access
    THEN [outcome |-> Raised("ValueError",
                             "Calendar access not granted. Please check System Settings > Privacy & Security > Calendar."),
          runs |-> <<>>]
    ELSE [outcome |-> Returned("CalendarManager"), runs |-> <<>>]

list_calendar_names_result(cals, storeOk) ==
    IF storeOk THEN Returned([i \in 1..Len(cals) |-> cals[i].title])
    ELSE Raised("Exception", StoreError)

----------------------------------------------------------------------------
(* server.py: get_calendar_manager and the handlers of the resource and    *)
(* the tools.  A handler is given what its try block yielded up to and     *)
(* including the call of the Manager, and yields what the transport gets.   *)

error_msg ==
    "Calendar access is not granted. Please follow these steps:\n\n1. Open System Preferences/Settings\n2. Go to Privacy & Security > Calendar\n3. Check the box next to your terminal application or Claude Desktop\n4. Restart Claude Desktop\n\nOnce you've granted access, try your calendar operation again.\n"

\* get_calendar_manager on a cache miss: CalendarManager() yielded `constructed`.
\* lru_cache keeps a returned value only; a call that raised is not cached.
get_calendar_manager(held, id, constructed) ==
    IF constructed.raised /\ IsInstance(constructed, "ValueError")
    THEN [yield |-> Raised("ValueError", error_msg), cache |-> held]
    ELSE IF constructed.raised THEN [yield |-> constructed, cache |-> held]
    ELSE [yield |-> Returned(id), cache |-> Some(id)]

RECURSIVE join(_, _)
\* sep.join(strings)
join(sep, strings) ==
    IF Len(strings) = 0 THEN ""
    ELSE IF Len(strings) = 1 THEN strings[1]
    ELSE strings[1] \o sep \o join(sep, Tail(strings))

\* str(event): the lines of Event.__str__ for the title and the identifier.
EventStr(e) ==
    "Event: " \o e.title[1] \o ",\n - Identifier: " \o ToString(e.identifier[1]) \o ",\n"

RECURSIVE EventList(_)
\* The events of a result as the list the store returned: by identifier and start.
EventList(events) ==
    IF events = {} THEN <<>>
    ELSE LET first == CHOOSE e \in events : \A f \in events :
                          \/ e.identifier[1] < f.identifier[1]
                          \/ e.identifier[1] = f.identifier[1] /\ e.start_time[1] <= f.start_time[1]
         IN  <<first>> \o EventList(events \ {first})

server_get_calendars(o) ==
    IF ~o.raised
    THEN LET cals == o.value[1]
         IN  IF Len(cals) = 0 THEN Returned("No calendars found")
             ELSE Returned("Available calendars:\n"
                           \o join("\n", [i \in 1..Len(cals) |-> "- " \o cals[i]]))
    ELSE IF IsInstance(o, "ValueError") THEN Returned(o.msg)
    ELSE IF IsInstance(o, "Exception") THEN Returned("Error listing calendars: " \o o.msg)
    ELSE o

server_list_calendars(o) ==
    IF ~o.raised
    THEN LET cals == o.value[1]
         IN  IF Len(cals) = 0 THEN Returned("No calendars found")
             ELSE Returned("Available calendars:\n"
                           \o join("\n", [i \in 1..Len(cals) |-> "- " \o cals[i]]))
    ELSE IF IsInstance(o, "Exception") THEN Returned("Error listing calendars: " \o o.msg)
    ELSE o

server_list_events(o) ==
    IF ~o.raised
    THEN LET events == EventList(o.value[1])
         IN  IF Len(events) = 0 THEN Returned("No events found in the specified date range")
             ELSE Returned(join("", [i \in 1..Len(events) |-> EventStr(events[i])]))
    ELSE IF IsInstance(o, "Exception") THEN Returned("Error listing events: " \o o.msg)
    ELSE o

\* The Manager returns its Event as a set of one; `if not event:` is the empty set.
server_create_event(o) ==
    IF ~o.raised
    THEN IF o.value[1] = {}
         THEN Returned("Failed to create event. Please check calendar permissions and try again.")
         ELSE LET event == CHOOSE e \in o.value[1] : TRUE
              IN  Returned("Successfully created event: " \o event.title[1]
                           \o " (ID: " \o ToString(event.identifier[1]) \o ")")
    ELSE IF IsInstance(o, "Exception") THEN Returned("Error creating event: " \o o.msg)
    ELSE o

server_update_event_value_error_only(o, event_id) ==
    IF ~o.raised
    THEN IF o.value[1] = {}
         THEN Returned("Failed to update event. Event with ID " \o ToString(event_id)
                       \o " not found or update failed.")
         ELSE LET event == CHOOSE e \in o.value[1] : TRUE
              IN  Returned("Successfully updated event: " \o event.title[1])
    ELSE IF IsInstance(o, "ValueError") THEN Returned("Error updating event: " \o o.msg)
    ELSE o

server_update_event(o, event_id) ==
    IF ~o.raised
    THEN IF o.value[1] = {}
         THEN Returned("Failed to update event. Event with ID " \o ToString(event_id)
                       \o " not found or update failed.")
         ELSE LET event == CHOOSE e \in o.value[1] : TRUE
              IN  Returned("Successfully updated event: " \o event.title[1])
    ELSE IF IsInstance(o, "Exception") THEN Returned("Error updating event: " \o o.msg)
    ELSE o

----------------------------------------------------------------------------
(* The server at work.  One thread serves the invocations one at a time:   *)
(* the tools are coroutines that block the event loop while they run.  The *)
(* store runs the completion of an access request on a thread of its own.  *)

\* An invocation: the tool (or the resource get_calendars), its arguments and
\* whether the store call it leads to succeeds.
Invocation(tool, request, event_id, ok) ==
    [tool |-> tool, request |-> request, event_id |-> event_id, ok |-> ok]

\* The handler of the invocation applied to what its try block yielded: the
\* response records both.
Respond(inv, o) ==
    LET h == CASE inv.tool = "get_calendars" -> server_get_calendars(o)
               [] inv.tool = "list_calendars" -> server_list_calendars(o)
               [] inv.tool = "list_events" -> server_list_events(o)
               [] inv.tool = "create_event" -> server_create_event(o)
               [] inv.tool = "update_event" -> server_update_event(o, inv.event_id)
    IN  [op |-> inv.tool, tried |-> o, gave |-> h]

\* The body of a handler after get_calendar_manager() yielded m: the call of
\* the Manager, if there is a Manager, and the response.
Serve(inv, m) ==
    IF m.raised
    THEN /\ response' = Respond(inv, m)
         /\ UNCHANGED <<storeVars, ruleVars>>
    ELSE CASE inv.tool \in {"get_calendars", "list_calendars"} ->
                /\ ManagerCall("list_calendar_names", inv.request,
                               Result(IF inv.ok THEN "ok" ELSE "Exception",
                                      eventWithEventStore, store, {}, 0, 0))
                /\ response' = Respond(inv, list_calendar_names_result(calendars, inv.ok))
                /\ calls' = NoTraffic
                /\ UNCHANGED <<nextId, issued, deleted>>
           [] inv.tool = "list_events" ->
                LET r == list_events_result(calendars, store, inv.request.start_time[1],
                                            inv.request.end_time[1], inv.request.calendar_name)
                IN  /\ ManagerCall("list_events", inv.request, r)
                    /\ calls' = NoTraffic
                    /\ response' = Respond(inv, Yielded(r, inv.request.calendar_name, r.ret))
                    /\ UNCHANGED <<nextId, issued, deleted>>
           [] inv.tool = "create_event" ->
                LET r == create_event_result(calendars, store, nextId, inv.request, inv.ok, <<>>)
                IN  /\ ManagerCall("create_event", inv.request, r)
                    /\ calls' = Traffic(create_setters(calendars, inv.request), inv.request, r, inv.ok)
                    /\ response' = Respond(inv, Yielded(r, inv.request.calendar_name, r.ret))
                    /\ nextId' = IF r.outcome = "ok" THEN nextId + 1 ELSE nextId
                    /\ issued' = IF r.outcome = "ok" THEN issued \cup {r.id} ELSE issued
                    /\ UNCHANGED deleted
           [] inv.tool = "update_event" ->
                LET r == update_event_result(calendars, store, inv.event_id, inv.request, inv.ok)
                IN  /\ ManagerCall("update_event", inv.request, r)
                    /\ calls' = Traffic(update_setters(calendars, store, inv.event_id, inv.request),
                                        inv.request, r, inv.ok)
                    /\ response' = Respond(inv, Yielded(r, inv.request.calendar_name, r.ret))
                    /\ UNCHANGED <<nextId, issued, deleted>>

\* server.py main(): the transport starts; nothing is constructed.
main ==
    /\ ~started
    /\ started' = TRUE
    /\ UNCHANGED <<cache, invocations, handshakes, response, accessVars, storeVars, ruleVars>>

\* An invocation that finds the Manager in the cache runs to its response.
InvokeCached(inv) ==
    /\ started /\ pc = "idle" /\ invocations < MaxInvocations
    /\ cache # None
    /\ invocations' = invocations + 1
    /\ Serve(inv, Returned(cache[1]))
    /\ UNCHANGED <<started, cache, handshakes, accessVars>>

\* An invocation that misses the cache constructs a Manager: __init__ enters
\* _request_access, which makes the semaphore and hands the completion to the
\* store (lines 279-287).
InvokeConstruct(inv) ==
    /\ started /\ pc = "idle" /\ invocations < MaxInvocations
    /\ cache = None
    /\ invocations' = invocations + 1
    /\ invocation' = Some(inv)
    /\ pc' = "requested"
    /\ semaphore' = 0
    /\ access_granted' = FALSE
    /\ callback' = "pending"
    /\ delivered' = None
    /\ releases' = 0
    /\ waited' = FALSE
    /\ UNCHANGED <<started, cache, handshakes, response, storeVars, ruleVars>>

\* The store calls completion(granted, error): line 284.
completion_write(granted) ==
    /\ callback = "pending"
    /\ access_granted' = granted
    /\ delivered' = Some(granted)
    /\ callback' = "written"
    /\ UNCHANGED <<pc, invocation, semaphore, releases, waited>>
    /\ UNCHANGED <<started, cache, invocations, handshakes, response, storeVars, ruleVars>>

\* completion, line 285: semaphore.release().
completion_release ==
    /\ callback = "written"
    /\ semaphore' = semaphore + 1
    /\ releases' = releases + 1
    /\ callback' = "released"
    /\ UNCHANGED <<pc, invocation, access_granted, delivered, waited>>
    /\ UNCHANGED <<started, cache, invocations, handshakes, response, storeVars, ruleVars>>

\* The store never calls the completion of this request.
completion_never ==
    /\ callback = "pending"
    /\ callback' = "never"
    /\ UNCHANGED <<pc, invocation, semaphore, access_granted, delivered, releases, waited>>
    /\ UNCHANGED <<started, cache, invocations, handshakes, response, storeVars, ruleVars>>

\* Line 288: semaphore.acquire() is called; it returns at once when the
\* completion has already released the semaphore and blocks otherwise.
semaphore_acquire ==
    /\ pc = "requested"
    /\ IF acquire(semaphore)
       THEN pc' = "acquired" /\ semaphore' = semaphore - 1 /\ UNCHANGED waited
       ELSE pc' = "waiting" /\ waited' = TRUE /\ UNCHANGED semaphore
    /\ UNCHANGED <<invocation, access_granted, callback, delivered, releases>>
    /\ UNCHANGED <<started, cache, invocations, handshakes, response, storeVars, ruleVars>>

\* The blocked acquire() returns once the semaphore is released.
semaphore_wake ==
    /\ pc = "waiting"
    /\ acquire(semaphore)
    /\ pc' = "acquired"
    /\ semaphore' = semaphore - 1
    /\ UNCHANGED <<invocation, access_granted, callback, delivered, releases, waited>>
    /\ UNCHANGED <<started, cache, invocations, handshakes, response, storeVars, ruleVars>>

\* Line 289 onwards: _request_access returns access_granted, __init__ returns
\* or raises, get_calendar_manager caches the Manager or raises, and the
\* handler runs to its response.
Constructed ==
    /\ pc = "acquired"
    /\ LET init == CalendarManager_init(access_granted)
           id == Len(handshakes) + 1
           g == get_calendar_manager(cache, id, init.outcome)
       IN  /\ handshakes' = Append(handshakes,
                   [delivered |-> delivered, returned |-> access_granted,
                    outcome |-> init.outcome, runs |-> init.runs,
                    releases |-> releases, waited |-> waited, callback |-> callback])
           /\ cache' = g.cache
           /\ Serve(invocation[1], g.yield)
    /\ pc' = "idle"
    /\ invocation' = None
    /\ UNCHANGED <<started, invocations, semaphore, access_granted, callback, delivered,
                   releases, waited>>

----------------------------------------------------------------------------
(* The initial state: a granted Manager over a store with two calendars    *)
(* and no event.                                                           *)

NoCall == [op |-> "none", id |-> 0, outcome |-> "ok", saves |-> 0]

NoResponse == [op |-> "none", tried |-> Returned(""), gave |-> Returned("")]

\* The server has been imported and nothing has been invoked.
InitServer ==
    /\ started = FALSE
    /\ cache = None
    /\ pc = "idle"
    /\ invocation = None
    /\ invocations = 0
    /\ semaphore = 0
    /\ access_granted = FALSE
    /\ callback = "none"
    /\ delivered = None
    /\ releases = 0
    /\ waited = FALSE
    /\ handshakes = <<>>
    /\ response = NoResponse

TwoCalendars == <<[id |-> 1, title |-> "Home"], [id |-> 2, title |-> "Work"]>>

InitManager ==
    /\ store = <<>>
    /\ nextId = 1
    /\ issued = {}
    /\ deleted = {}
    /\ last = NoCall
    /\ req = EmptyRequest
    /\ ret = {}
    /\ ek = eventWithEventStore
    /\ pre = <<>>
    /\ preCalendars = <<>>
    /\ calls = NoTraffic
    /\ rule = NoRule
    /\ ruleResult = "none"
    /\ native = None
    /\ projected = None

Init ==
    /\ InitServer
    /\ calendars = TwoCalendars
    /\ InitManager

\* Identifiers a caller may pass: the issued ones and one never issued.
EventIds == 1..(MaxEvents + 1)

DailyRule(n) == [NoRule EXCEPT !.occurrence_count = Some(n)]

WeeklyRule == [NoRule EXCEPT !.frequency = WEEKLY, !.interval = 2]

----------------------------------------------------------------------------
(* Spec: several events in several calendars, few fields *)

CreateRequests ==
    {[EmptyRequest EXCEPT !.title = Some("T1"), !.start_time = Some(1), !.end_time = Some(1),
                          !.all_day = Some(FALSE), !.calendar_name = c, !.recurrence_rule = rr] :
        c \in {None, Some("Work"), Some("Nope")},
        rr \in {None, Some(DailyRule(3))}}

UpdateRequests ==
    {[EmptyRequest EXCEPT !.title = Some("T2")],
     [EmptyRequest EXCEPT !.calendar_name = Some("Home")],
     [EmptyRequest EXCEPT !.calendar_name = Some("Nope")],
     [EmptyRequest EXCEPT !.title = Some("T2"), !.calendar_name = Some("Nope")]}

ListRanges == {<<0, Horizon>>, <<2, Horizon>>, <<0, 1>>}

ListCalendars == {None, Some("Work"), Some("Nope")}

Next ==
    \/ \E r \in CreateRequests, ok \in BOOLEAN : create_event(r, ok, <<>>)
    \/ \E i \in EventIds, r \in UpdateRequests, ok \in BOOLEAN : update_event(i, r, ok)
    \/ \E i \in EventIds, ok \in BOOLEAN : delete_event(i, ok)
    \/ \E i \in EventIds : find_event_by_id(i)
    \/ \E rg \in ListRanges, c \in ListCalendars : list_events(rg[1], rg[2], c)

Spec == Init /\ [][Next]_vars

----------------------------------------------------------------------------
(* SpecRule: the constructions of RecurrenceRule *)

NextRule ==
    \/ \E r \in RuleInputs : Construct(r)
    \/ RoundTrip

SpecRule == Init /\ [][NextRule]_vars

----------------------------------------------------------------------------
(* SpecFields and SpecAlarms follow one event through create_event,        *)
(* update_event and find_event_by_id.  An update is followed by a lookup   *)
(* before the next update: update_event reads nothing of the last call, so *)
(* every pair of a reachable store and a request is still taken.           *)

BareEvent ==
    [EmptyRequest EXCEPT !.title = Some("T1"), !.start_time = Some(1), !.end_time = Some(2),
                         !.all_day = Some(FALSE)]

FullEvent ==
    [BareEvent EXCEPT !.location = Some("L1"), !.notes = Some("N1"), !.url = Some("U1"),
                      !.alarms_minutes_offsets = Some(<<120>>),
                      !.recurrence_rule = Some(DailyRule(3))]

\* SpecFields: every combination of the scalar fields and the calendar in
\* the update request.
FieldCreateRequests == {BareEvent, FullEvent}

FieldUpdateRequests ==
    [title : {None, Some("T2")}, start_time : {None, Some(0)}, end_time : {None, Some(3)},
     location : {None, Some("")}, notes : {None, Some("N2")}, url : {None, Some("U2")},
     all_day : {None, Some(FALSE), Some(TRUE)},
     calendar_name : {None, Some(""), Some("Nope")},
     alarms_minutes_offsets : {None}, recurrence_rule : {None}]

NextFields ==
    \/ \E r \in FieldCreateRequests, ok \in BOOLEAN : DOMAIN store = {} /\ create_event(r, ok, <<>>)
    \/ \E i \in DOMAIN store, r \in FieldUpdateRequests :
           last.op # "update_event" /\ update_event(i, r, TRUE)
    \/ \E i \in DOMAIN store : find_event_by_id(i)

SpecFields == Init /\ [][NextFields]_vars

\* SpecAlarms: the all-day flag, the alarms, the recurrence and the calendar
\* in the create and update requests.
DefaultAlarms == {<<>>, <<-900>>}

AlarmCreateRequests ==
    {[FullEvent EXCEPT !.all_day = Some(a), !.alarms_minutes_offsets = m, !.recurrence_rule = rr] :
        a \in BOOLEAN,
        m \in {None, Some(<<>>), Some(<<120>>), Some(<<5760, 2880>>)},
        rr \in {None, Some(DailyRule(3))}}

AlarmUpdateRequests ==
    [title : {None, Some("T2")}, start_time : {None}, end_time : {None},
     location : {None}, notes : {None}, url : {None},
     all_day : {None, Some(FALSE), Some(TRUE)},
     calendar_name : {None, Some("Home"), Some("Work")},
     alarms_minutes_offsets : {None, Some(<<>>), Some(<<120>>), Some(<<240, 1500>>)},
     recurrence_rule : {None, Some(WeeklyRule)}]

NextAlarms ==
    \/ \E r \in AlarmCreateRequests, ok \in BOOLEAN, d \in DefaultAlarms :
           DOMAIN store = {} /\ create_event(r, ok, d)
    \/ \E i \in DOMAIN store, r \in AlarmUpdateRequests, ok \in BOOLEAN :
           last.op # "update_event" /\ update_event(i, r, ok)
    \/ \E i \in DOMAIN store : find_event_by_id(i)

SpecAlarms == Init /\ [][NextAlarms]_vars

----------------------------------------------------------------------------
(* SpecServer: the server from its start, over a store with or without     *)
(* calendars, whose user grants or denies each access request.  The        *)
(* Manager the server holds is also called directly for delete_event and   *)
(* find_event_by_id, which have no tool.                                   *)

ServerCalendars == {<<>>, TwoCalendars}

ServerCreateRequests ==
    {[EmptyRequest EXCEPT !.title = Some("T1"), !.start_time = Some(1), !.end_time = Some(2),
                          !.all_day = Some(FALSE), !.calendar_name = c] :
        c \in {Some("Work"), Some("Nope")}}

ServerUpdateRequests == {[EmptyRequest EXCEPT !.title = Some("T2")]}

ServerListRequests ==
    {[EmptyRequest EXCEPT !.start_time = Some(0), !.end_time = Some(Horizon), !.calendar_name = c] :
        c \in {None, Some("Nope")}}

Invocations ==
    {Invocation(t, EmptyRequest, 0, ok) : t \in {"get_calendars", "list_calendars"}, ok \in BOOLEAN}
    \cup {Invocation("list_events", r, 0, TRUE) : r \in ServerListRequests}
    \cup {Invocation("create_event", r, 0, ok) : r \in ServerCreateRequests, ok \in BOOLEAN}
    \cup {Invocation("update_event", r, i, ok) : r \in ServerUpdateRequests, i \in 1..2, ok \in BOOLEAN}

InitServerSpec ==
    /\ InitServer
    /\ calendars \in ServerCalendars
    /\ InitManager

NextServer ==
    \/ main
    \/ \E inv \in Invocations :
           (inv.tool = "create_event" => nextId <= MaxEvents) /\ InvokeCached(inv)
    \/ \E inv \in Invocations :
           (inv.tool = "create_event" => nextId <= MaxEvents) /\ InvokeConstruct(inv)
    \/ \E granted \in BOOLEAN : completion_write(granted)
    \/ completion_release
    \/ completion_never
    \/ semaphore_acquire
    \/ semaphore_wake
    \/ Constructed
    \/ \E i \in 1..2 : cache # None /\ pc = "idle" /\ delete_event(i, TRUE)
    \/ \E i \in 1..2 : cache # None /\ pc = "idle" /\ find_event_by_id(i)

SpecServer == InitServerSpec /\ [][NextServer]_vars

\* The thread of the server and the store, once it has started on a
\* completion, keep running; the store is free never to start on one.
SpecServerFair == SpecServer /\ WF_vars(NextServer)

----------------------------------------------------------------------------
(* SpecNative: events another client of the store saved, with alarms of    *)
(* any relative offset, read through find_event_by_id.                     *)

\* Another client saves an event with the given alarms in the store.
external_save(alarms) ==
    /\ nextId <= MaxEvents
    /\ LET e == [create_ekevent(BareEvent) EXCEPT !.alarms = alarms,
                                                   !.calendar = Some(defaultCalendarForNewEvents(calendars))]
       IN  store' = saveEvent_span(store, e, EKSpanThisEvent, nextId, <<>>)
    /\ nextId' = nextId + 1
    /\ UNCHANGED <<calendars, issued, deleted, last, req, ret, ek, pre, preCalendars, calls>>
    /\ UNCHANGED <<ruleVars, adapterVars>>

\* Relative offsets in seconds: before and after the start, multiples of 60,
\* halves of a minute and in between.
NativeOffsets == {-3600, -150, -100, -90, -61, -30, 0, 30, 59, 90, 100}

NativeAlarms == {<<s>> : s \in NativeOffsets} \cup {<<s, t>> : s \in NativeOffsets, t \in {-900, 90}}

NextNative ==
    \/ \E a \in NativeAlarms : DOMAIN store = {} /\ external_save(a)
    \/ \E i \in DOMAIN store : find_event_by_id(i)
    \/ \E i \in DOMAIN store : delete_event(i, TRUE)

SpecNative == Init /\ [][NextNative]_vars

----------------------------------------------------------------------------
(* ical.py: _find_calendar_by_id and _delete_calendar, and SpecCalendars:  *)
(* calendars are deleted while events are created and read.                *)

\* calendar.uniqueIdentifier() as the string a caller passes for it.
uniqueIdentifier(id) == ToString(id)

_find_calendar_by_id(cals, calendar_id) ==
    IF \E i \in 1..Len(cals) : uniqueIdentifier(cals[i].id) = calendar_id
    THEN Some((CHOOSE i \in 1..Len(cals) : uniqueIdentifier(cals[i].id) = calendar_id))
    ELSE None

\* event_store.removeCalendar_commit_error_ reporting success: the store says
\* the calendar is removed; `removed` tells whether it left the list, with
\* its events.
removeCalendar_commit(cals, i, removed) ==
    IF removed THEN SubSeq(cals, 1, i - 1) \o SubSeq(cals, i + 1, Len(cals)) ELSE cals

\* _delete_calendar, lines 381-400: what it yields, given the calendars the
\* store lists after the removal.
_delete_calendar_result(cals, calendar_id, removeOk, after) ==
    IF _find_calendar_by_id(cals, calendar_id) = None THEN NoSuchCalendarException(calendar_id)
    ELSE IF ~removeOk THEN Raised("Exception", StoreError)
    ELSE LET remaining_calendars == list_calendar_names_result(after, TRUE).value[1]
         IN  IF \E i \in 1..Len(remaining_calendars) : remaining_calendars[i] = calendar_id
             THEN Raised("Exception", "Calendar " \o calendar_id \o " was not properly deleted")
             ELSE Returned(TRUE)

_delete_calendar(calendar_id, removeOk, removed) ==
    LET calendar == _find_calendar_by_id(calendars, calendar_id)
        called == IsSet(calendar)
        after == IF called /\ removeOk
                 THEN removeCalendar_commit(calendars, calendar[1], removed)
                 ELSE calendars
        y == _delete_calendar_result(calendars, calendar_id, removeOk, after)
    IN  /\ calendars' = after
        /\ store' = [i \in {j \in DOMAIN store :
                               \E c \in 1..Len(after) : store[j].event.calendar = Some(after[c].id)}
                        |-> store[i]]
        /\ last' = [op |-> "_delete_calendar", id |-> calendar_id,
                    outcome |-> IF y.raised THEN y.class ELSE "ok",
                    saves |-> IF called THEN 1 ELSE 0]
        /\ calls' = [setters |-> {},
                     reply |-> IF ~called THEN "none" ELSE IF removeOk THEN "success" ELSE "failure",
                     error |-> IF called /\ ~removeOk THEN StoreError ELSE "",
                     yielded |-> y]
        /\ req' = EmptyRequest
        /\ ret' = {}
        /\ ek' = eventWithEventStore
        /\ pre' = store
        /\ preCalendars' = calendars
        /\ UNCHANGED <<nextId, issued, deleted>>
        /\ UNCHANGED <<ruleVars, adapterVars>>

\* Three calendars; the title of the third happens to be its identifier.
ThreeCalendars == TwoCalendars \o <<[id |-> 3, title |-> "3"]>>

CalendarIds == {"1", "2", "3", "4"}

CalendarCreateRequests ==
    {[BareEvent EXCEPT !.calendar_name = Some(c)] : c \in {"Home", "Work", "3"}}

InitCalendars ==
    /\ InitServer
    /\ calendars = ThreeCalendars
    /\ InitManager

NextCalendars ==
    \/ \E c \in CalendarIds, ok \in BOOLEAN, removed \in BOOLEAN : _delete_calendar(c, ok, removed)
    \/ \E r \in CalendarCreateRequests : create_event(r, TRUE, <<>>)
    \/ \E i \in DOMAIN store : find_event_by_id(i)

SpecCalendars == InitCalendars /\ [][NextCalendars]_vars

----------------------------------------------------------------------------
(* SpecCreate: one event is created from every combination of              *)
(* absent, falsy and truthy optional fields.                                *)

OptionalCreateRequests ==
    {[BareEvent EXCEPT !.notes = n, !.location = l, !.url = u, !.all_day = Some(a),
                       !.alarms_minutes_offsets = m, !.recurrence_rule = rr] :
        n \in {None, Some(""), Some("N1")},
        l \in {None, Some(""), Some("L1")},
        u \in {None, Some(""), Some("U1")},
        a \in BOOLEAN,
        m \in {None, Some(<<>>), Some(<<120>>)},
        rr \in {None, Some(DailyRule(3))}}

NextCreate ==
    \/ \E r \in OptionalCreateRequests, ok \in BOOLEAN, d \in DefaultAlarms :
           DOMAIN store = {} /\ create_event(r, ok, d)
    \/ \E i \in DOMAIN store : find_event_by_id(i)

SpecCreate == Init /\ [][NextCreate]_vars

----------------------------------------------------------------------------
(* Properties *)

\* The calendar title `name` (an optional string) is given and is the title
\* of no calendar.
NamesNoCalendar(name) ==
    /\ TruthyStr(name)
    /\ \A i \in 1..Len(calendars) : calendars[i].title # name[1]

\* What find_event_by_id returns on store `st`.
Found(st, id) == find_event_by_id_result(calendars, st, id)

TheEvent(found) == CHOOSE e \in found : TRUE

\* The native event recurs daily and ends after a number of occurrences.
DailyWithCount(ekevent) ==
    /\ IsSet(ekevent.recurrenceRule)
    /\ ekevent.recurrenceRule[1].frequency = DAILY
    /\ IsSet(ekevent.recurrenceRule[1].recurrenceEnd)
    /\ ekevent.recurrenceRule[1].recurrenceEnd[1].occurrenceCount > 0

\* C1: constructing a RecurrenceRule fails validation whenever both end_date
\* and occurrence_count are set (occurrence_count = 0 included) and succeeds
\* whenever at most one of them is set, given a valid frequency and an
\* interval of at least 1.
C1_EndConditions ==
    ruleResult # "none" =>
        LET both == IsSet(rule.end_date) /\ IsSet(rule.occurrence_count)
        IN  /\ both => ruleResult = "ValidationError"
            /\ (~both /\ rule.frequency \in Frequency /\ rule.interval >= 1) => ruleResult = "ok"

C1_Witness ==
    /\ ruleResult = "ValidationError"
    /\ rule.frequency = WEEKLY /\ rule.interval = 1
    /\ IsSet(rule.end_date) /\ rule.occurrence_count = Some(0)

C4_FindExactlyLive ==
    /\ \A i \in EventIds :
           /\ Found(store, i) # {} <=> i \in issued \ deleted
           /\ \A e \in Found(store, i) : e.identifier = Some(i)
    /\ last.op = "find_event_by_id" =>
           /\ last.outcome = "ok"
           /\ ret = Found(store, last.id)

C4_Witness ==
    /\ last.op = "find_event_by_id" /\ last.id \in deleted /\ ret = {}
    /\ \E i \in issued \ deleted : Found(store, i) # {}

\* C5: update_event applies exactly the fields that are present (not None) in
\* the request: an absent field keeps the value it had, a present field is
\* set to the requested value, falsy values (False, an empty list, an empty
\* string) included.  The offsets of the alarms are the subject of C7; here
\* a present alarms list gives one alarm per requested offset.
C5_AppliesPresentFields ==
    (last.op = "update_event" /\ last.outcome = "ok") =>
        LET b == pre[last.id].event
            a == store[last.id].event
        IN  /\ a.title = IF IsSet(req.title) THEN req.title ELSE b.title
            /\ a.startDate = IF IsSet(req.start_time) THEN req.start_time ELSE b.startDate
            /\ a.endDate = IF IsSet(req.end_time) THEN req.end_time ELSE b.endDate
            /\ a.location = IF IsSet(req.location) THEN req.location ELSE b.location
            /\ a.notes = IF IsSet(req.notes) THEN req.notes ELSE b.notes
            /\ a.URL = IF IsSet(req.url) THEN req.url ELSE b.URL
            /\ a.allDay = IF IsSet(req.all_day) THEN req.all_day[1] ELSE b.allDay
            /\ IF IsSet(req.calendar_name)
               THEN CalendarTitle(calendars, a.calendar) = req.calendar_name
               ELSE a.calendar = b.calendar
            /\ IF IsSet(req.alarms_minutes_offsets)
               THEN Len(a.alarms) = Len(req.alarms_minutes_offsets[1])
               ELSE a.alarms = b.alarms
            /\ a.recurrenceRule = IF IsSet(req.recurrence_rule)
                                  THEN Some(to_ek_recurrence(req.recurrence_rule[1]))
                                  ELSE b.recurrenceRule

\* C6: update_event whose request names a calendar that does not exist raises
\* NoSuchCalendarException before any mutation, whatever other fields the
\* request holds: the native record of the event is as it was and no save is
\* issued.
C6_NoMutationBeforeFailure ==
    (last.op = "update_event" /\ last.id \in DOMAIN pre /\ NamesNoCalendar(req.calendar_name)) =>
        /\ last.outcome = "NoSuchCalendarException"
        /\ last.saves = 0
        /\ ek = pre[last.id].event

\* C7: when update_event supplies alarm offsets, every native alarm of an
\* all-day event gets relative offset -60 * (m - 1440) for the requested
\* offset m, whether the all-day flag comes from this request or from the
\* creation of the event; on an event that is not all-day it gets -60 * m.
C7_UpdateAlarmOffsets ==
    (last.op = "update_event" /\ last.outcome = "ok" /\ IsSet(req.alarms_minutes_offsets)) =>
        LET M == req.alarms_minutes_offsets[1]
        IN  /\ Len(ek.alarms) = Len(M)
            /\ \A i \in 1..Len(M) :
                   ek.alarms[i] = IF ek.allDay THEN -60 * (M[i] - 1440) ELSE -60 * M[i]

\* C8: for every list M of minute offsets given to create_event, on all-day
\* and timed events alike, the native alarms are created with relative
\* offset -60 * m, and the Event find_event_by_id returns afterwards has
\* every m of M among its alarms_minutes_offsets.
C8_CreateAlarms ==
    (last.op = "create_event" /\ last.outcome = "ok" /\ IsSet(req.alarms_minutes_offsets)) =>
        LET M == req.alarms_minutes_offsets[1]
            found == Found(store, last.id)
        IN  /\ Len(ek.alarms) >= Len(M)
            /\ \A i \in 1..Len(M) : ek.alarms[i] = -60 * M[i]
            /\ found # {}
            /\ \A i \in 1..Len(M) :
                   \E j \in 1..Len(TheEvent(found).alarms_minutes_offsets) :
                       TheEvent(found).alarms_minutes_offsets[j] = M[i]

C8_Witness ==
    /\ last.op = "create_event" /\ last.outcome = "ok"
    /\ req.all_day = Some(TRUE)
    /\ req.alarms_minutes_offsets = Some(<<5760, 2880>>)
    /\ Len(ek.alarms) = 3

\* C9: when an event created with a daily recurrence of n occurrences has its
\* title changed by update_event on the identifier create_event returned,
\* listing its calendar over a range that covers the series returns exactly
\* n events of that identifier, all with the new title.
C9_SeriesTitle ==
    (/\ last.op = "update_event" /\ last.outcome = "ok"
     /\ \E t \in {"T1", "T2"} : req = [EmptyRequest EXCEPT !.title = Some(t)]
     /\ DailyWithCount(pre[last.id].event)) =>
        LET n == pre[last.id].event.recurrenceRule[1].recurrenceEnd[1].occurrenceCount
            e0 == store[last.id].event
            listed == list_events_result(calendars, store, 0, Horizon,
                                         CalendarTitle(calendars, e0.calendar)).ret
            series == {e \in listed : e.identifier = Some(last.id)}
        IN  /\ Cardinality(series) = n
            /\ \A e \in series : e.title = req.title

C9_Witness ==
    /\ last.op = "update_event" /\ last.outcome = "ok"
    /\ req = [EmptyRequest EXCEPT !.title = Some("T2")]
    /\ DailyWithCount(pre[last.id].event)
    /\ pre[last.id].event.title = Some("T1")
    /\ Cardinality(list_events_result(calendars, store, 0, Horizon, None).ret) = 3

\* C10: update_event with a request that holds only calendar_name, the title
\* of an existing calendar, changes the calendar_name find_event_by_id
\* returns to that title and leaves every other field of the event unchanged.
C10_MoveOnlyCalendar ==
    (/\ last.op = "update_event" /\ last.outcome = "ok"
     /\ \E i \in 1..Len(calendars) :
            req = [EmptyRequest EXCEPT !.calendar_name = Some(calendars[i].title)]) =>
        /\ Found(pre, last.id) # {} /\ Found(store, last.id) # {}
        /\ TheEvent(Found(store, last.id))
               = [TheEvent(Found(pre, last.id)) EXCEPT !.calendar_name = req.calendar_name]

C10_Witness ==
    /\ last.op = "update_event" /\ last.outcome = "ok"
    /\ req = [EmptyRequest EXCEPT !.calendar_name = Some("Work")]
    /\ TheEvent(Found(pre, last.id)).calendar_name = Some("Home")
    /\ TheEvent(Found(store, last.id)).calendar_name = Some("Work")
    /\ TheEvent(Found(store, last.id)).all_day
    /\ Len(TheEvent(Found(store, last.id)).alarms_minutes_offsets) = 2
    /\ IsSet(TheEvent(Found(store, last.id)).recurrence_rule)

\* C11: for every valid RecurrenceRule r, the rule from_ekevent projects from
\* to_ek_recurrence(r) is valid and has the frequency, the interval and the
\* days_of_week of r and the end condition r had (end_date, or
\* occurrence_count, or none), never both.
C11_RoundTrip ==
    IsSet(projected) =>
        LET p == projected[1].rule
        IN  /\ projected[1].outcome = "ok"
            /\ p.frequency = rule.frequency
            /\ p.interval = rule.interval
            /\ p.days_of_week = rule.days_of_week
            /\ p.end_date = rule.end_date
            /\ p.occurrence_count = rule.occurrence_count
            /\ ~(IsSet(p.end_date) /\ IsSet(p.occurrence_count))

\* C12: create_event with calendar_name unset assigns the new event to the
\* default calendar of the store: the call never fails for want of a
\* calendar, the Event it returns and the Event find_event_by_id returns have
\* the title of the default calendar as calendar_name, and the calendar of a
\* stored event changes later only by an update_event that names a calendar.
C12_DefaultCalendar ==
    /\ [](  (last.op = "create_event" /\ req.calendar_name = None) =>
              LET default == Some(defaultCalendarForNewEvents(calendars))
              IN  /\ last.outcome \in {"ok", "Exception"}
                  /\ ek.calendar = default
                  /\ last.outcome = "ok" =>
                         /\ ret # {}
                         /\ \A e \in ret :
                                /\ IsSet(e.calendar_name)
                                /\ e.calendar_name = CalendarTitle(calendars, default)
                         /\ Found(store, last.id) = ret)
    /\ [][\A i \in DOMAIN store \cap DOMAIN store' :
              store'[i].event.calendar # store[i].event.calendar =>
                  /\ last'.op = "update_event" /\ last'.id = i
                  /\ TruthyStr(req'.calendar_name)]_vars

C12_Witness ==
    /\ last.op = "create_event" /\ last.outcome = "ok" /\ req.calendar_name = None
    /\ \E e \in ret : e.calendar_name = Some("Home") /\ e.identifier = Some(2)
    /\ Found(store, 1) # {} /\ TheEvent(Found(store, 1)).calendar_name = Some("Work")

\* C13: list_events(start, end, calendar_name) returns exactly the events of
\* the store that overlap [start, end], of all calendars when calendar_name
\* is unspecified and of the named calendar alone when it names an existing
\* one: every Event returned is an occurrence of an event created and not
\* deleted, overlaps the range and is in the named calendar; and every event
\* created and not deleted whose span lies inside the range, in the named
\* calendar if one is named, is returned.
C13_ListEvents ==
    (/\ last.op = "list_events"
     /\ \/ req.calendar_name = None
        \/ /\ IsSet(req.calendar_name)
           /\ \E i \in 1..Len(calendars) : calendars[i].title = req.calendar_name[1]) =>
        LET start == req.start_time[1]
            end == req.end_time[1]
            InCalendar(e) == req.calendar_name = None \/ e.calendar_name = req.calendar_name
        IN  /\ last.outcome = "ok"
            /\ \A e \in ret :
                   /\ IsSet(e.identifier) /\ e.identifier[1] \in issued \ deleted
                   /\ e.start_time[1] <= end /\ e.end_time[1] >= start
                   /\ InCalendar(e)
            /\ \A i \in issued \ deleted :
                   LET e == TheEvent(Found(store, i))
                   IN  (e.start_time[1] >= start /\ e.end_time[1] <= end /\ InCalendar(e))
                           => e \in ret

C13_Witness ==
    /\ last.op = "list_events" /\ last.outcome = "ok"
    /\ req.calendar_name = Some("Work") /\ req.start_time = Some(0) /\ req.end_time = Some(1)
    /\ Cardinality(ret) = 1
    /\ Cardinality(issued \ deleted) = 2
    /\ Cardinality(list_events_result(calendars, store, 0, Horizon, None).ret) > 2

\* The CalendarManager() constructions begun so far, each with its request
\* for access.
Constructions == Len(handshakes) + (IF pc = "idle" THEN 0 ELSE 1)

\* C14: every tool and the calendars resource give the transport a string,
\* whatever the Manager yielded: a value, the failure of its construction for
\* want of access, NoSuchCalendarException, NoSuchEventException or a failure
\* the store reported.  No exception leaves a handler.
C14_AlwaysAString ==
    response.op # "none" =>
        /\ ~response.gave.raised
        /\ IsSet(response.gave.value)
        /\ response.gave.value[1] \in STRING

C14_Witness ==
    /\ response.op = "update_event"
    /\ response.tried.raised /\ response.tried.class = "NoSuchEventException"
    /\ response.gave = Returned("Error updating event: Event with id: 2 does not exist")
    /\ Len(handshakes) = 2 /\ handshakes[1].outcome.raised /\ ~handshakes[2].outcome.raised

\* C15: over any sequence of invocations the server constructs exactly one
\* Manager: none before the first invocation, one from the first invocation
\* on, and never a second, so that access is requested once.
C15_OneManager ==
    /\ invocations = 0 => Constructions = 0
    /\ invocations > 0 => Constructions >= 1
    /\ Constructions <= 1

\* C16: no operation reaches the store through a Manager whose request for
\* access was denied: a denied construction raises and leaves no Manager, and
\* the Manager every list, create, update, delete or find ran through had its
\* access granted by the store.
C16_GrantedBeforeUse ==
    /\ \A i \in DOMAIN handshakes :
           (handshakes[i].delivered # Some(TRUE)) =>
               /\ handshakes[i].outcome.raised
               /\ cache # Some(i)
    /\ last.op # "none" =>
           /\ IsSet(cache)
           /\ handshakes[cache[1]].delivered = Some(TRUE)

C16_Witness ==
    /\ last.op = "delete_event" /\ last.outcome = "ok"
    /\ Len(handshakes) = 2
    /\ handshakes[1].delivered = Some(FALSE) /\ handshakes[1].outcome.raised
    /\ handshakes[2].delivered = Some(TRUE) /\ cache = Some(2)

\* C17: a CalendarManager() construction whose access is denied raises
\* ValueError with a message containing 'Calendar access not granted', after
\* running the `open` command on the Calendar privacy settings URL.
C17_DeniedOpensSettings ==
    \A i \in DOMAIN handshakes :
        ~handshakes[i].returned =>
            /\ handshakes[i].outcome.raised
            /\ handshakes[i].outcome.class = "ValueError"
            /\ SubSeq(handshakes[i].outcome.msg, 1, 27) = "Calendar access not granted"
            /\ \E j \in DOMAIN handshakes[i].runs :
                   /\ handshakes[i].runs[j][1] = "open"
                   /\ handshakes[i].runs[j][2]
                          = "x-apple.systempreferences:com.apple.preference.security?Privacy_Calendars"

\* C18: whatever the outcome (no calendar, some calendars, access denied when
\* the Manager is constructed, a failure of the store), the calendars
\* resource gives the string the list_calendars tool gives.
C18_ResourceAsTool ==
    /\ response.op = "get_calendars" => response.gave = server_list_calendars(response.tried)
    /\ response.op = "list_calendars" => response.gave = server_get_calendars(response.tried)

\* C19: _request_access returns only after the completion has run, returns
\* the value the completion was given, and the semaphore is released exactly
\* once, whether the completion runs before the constructing thread calls
\* acquire() or while it is blocked there.
C19_Rendezvous ==
    /\ releases <= 1 /\ semaphore \in {0, 1}
    /\ pc = "acquired" =>
           /\ callback = "released" /\ releases = 1 /\ semaphore = 0
           /\ delivered = Some(access_granted)
    /\ \A i \in DOMAIN handshakes :
           /\ handshakes[i].callback = "released"
           /\ handshakes[i].releases = 1
           /\ handshakes[i].delivered = Some(handshakes[i].returned)

C19_Witness ==
    /\ Len(handshakes) = 2
    /\ handshakes[1].waited /\ ~handshakes[1].returned
    /\ ~handshakes[2].waited /\ handshakes[2].returned

\* C20: the construction of a Manager always ends, returning or raising,
\* also when the store never calls the completion: the thread that began an
\* invocation always gets to its end.
C20_HandshakeEnds == [](pc # "idle" => <>(pc = "idle"))

\* round(a / b) for b > 0 as Python rounds: to the nearest integer, a half
\* to the even one.
Round(a, b) ==
    LET q == a \div b
        r == a - q * b
    IN  IF 2 * r < b THEN q
        ELSE IF 2 * r > b THEN q + 1
        ELSE IF q % 2 = 0 THEN q ELSE q + 1

\* C21: on the read path every native alarm of relative offset s seconds,
\* of either sign and also when s is no multiple of 60, is projected to the
\* entry round(-s / 60) of alarms_minutes_offsets.
C21_AlarmMinutesRounded ==
    (last.op = "find_event_by_id" /\ ret # {}) =>
        LET native_alarms == store[last.id].event.alarms
            e == TheEvent(ret)
        IN  /\ Len(e.alarms_minutes_offsets) = Len(native_alarms)
            /\ \A i \in 1..Len(native_alarms) :
                   e.alarms_minutes_offsets[i] = Round(-native_alarms[i], 60)

\* C22: an alarms list given to update_event replaces the whole alarm set of
\* the event: afterwards the native alarms, of this and of the later
\* occurrences, are one alarm per supplied offset and nothing else, whatever
\* alarms the event had; an empty list leaves no alarm.
C22_AlarmsReplaced ==
    (last.op = "update_event" /\ last.outcome = "ok" /\ IsSet(req.alarms_minutes_offsets)) =>
        LET M == req.alarms_minutes_offsets[1]
            a == store[last.id].event.alarms
        IN  /\ "setAlarms_" \in calls.setters
            /\ Len(a) = Len(M)
            /\ \A i \in 1..Len(M) : a[i] \in {-60 * M[i], -60 * (M[i] - 1440)}
            /\ store[last.id].future.alarms = a
            /\ Len(TheEvent(Found(store, last.id)).alarms_minutes_offsets) = Len(M)

C22_Witness ==
    /\ last.op = "update_event" /\ last.outcome = "ok"
    /\ req.alarms_minutes_offsets = Some(<<>>)
    /\ Len(pre[last.id].event.alarms) = 3
    /\ store[last.id].event.alarms = <<>>

Listed(cals, calendar_id) == \E i \in 1..Len(cals) : uniqueIdentifier(cals[i].id) = calendar_id

\* C24: when the store has reported a successful removal and the calendar of
\* identifier calendar_id is still in the calendar list of the store,
\* _delete_calendar raises; it returns True only when that calendar is no
\* longer listed.
C24_DeleteVerified ==
    (last.op = "_delete_calendar" /\ calls.reply = "success") =>
        /\ Listed(calendars, last.id) => calls.yielded.raised
        /\ calls.yielded = Returned(TRUE) => ~Listed(calendars, last.id)

\* The native setters of the optional fields of a new event.
OptionalSetters ==
    {"setNotes_", "setLocation_", "setURL_", "setAllDay_", "addAlarm_", "setRecurrenceRule_"}

\* The optional setters create_event would call if it called one for every
\* field present in the request.
PresentSetters(r) ==
    (IF IsSet(r.notes) THEN {"setNotes_"} ELSE {})
    \cup (IF IsSet(r.location) THEN {"setLocation_"} ELSE {})
    \cup (IF IsSet(r.url) THEN {"setURL_"} ELSE {})
    \cup (IF IsSet(r.all_day) THEN {"setAllDay_"} ELSE {})
    \cup (IF IsSet(r.alarms_minutes_offsets) THEN {"addAlarm_"} ELSE {})
    \cup (IF IsSet(r.recurrence_rule) THEN {"setRecurrenceRule_"} ELSE {})

\* The optional setters of the fields that are present and not falsy: a
\* non-empty string, True, a non-empty list, a rule.
TruthySetters(r) ==
    (IF TruthyStr(r.notes) THEN {"setNotes_"} ELSE {})
    \cup (IF TruthyStr(r.location) THEN {"setLocation_"} ELSE {})
    \cup (IF TruthyStr(r.url) THEN {"setURL_"} ELSE {})
    \cup (IF TruthyBool(r.all_day) THEN {"setAllDay_"} ELSE {})
    \cup (IF TruthyList(r.alarms_minutes_offsets) THEN {"addAlarm_"} ELSE {})
    \cup (IF IsSet(r.recurrence_rule) THEN {"setRecurrenceRule_"} ELSE {})

\* C25: create_event calls the native setter of each optional field (notes,
\* location, url, all_day, alarms, recurrence rule) exactly when the field is
\* present in the request, and title, start and end are always set.
C25_SetsPresentFields ==
    last.op = "create_event" =>
        /\ {"setTitle_", "setStartDate_", "setEndDate_"} \subseteq calls.setters
        /\ calls.setters \cap OptionalSetters = PresentSetters(req)

\* C25, amended: create_event calls the native setter of each optional field
\* exactly when the field is present and not falsy, and none for a field that
\* is absent, an empty string, False or an empty list; title, start and end
\* are always set. The native event carries the value of each field set and
\* nothing for a field skipped.
C25_SetsTruthyFields ==
    last.op = "create_event" =>
        /\ {"setTitle_", "setStartDate_", "setEndDate_"} \subseteq calls.setters
        /\ calls.setters \cap OptionalSetters = TruthySetters(req)
        /\ ek.title = req.title /\ ek.startDate = req.start_time /\ ek.endDate = req.end_time
        /\ ek.notes = (IF TruthyStr(req.notes) THEN req.notes ELSE None)
        /\ ek.location = (IF TruthyStr(req.location) THEN req.location ELSE None)
        /\ ek.URL = (IF TruthyStr(req.url) THEN req.url ELSE None)
        /\ ek.allDay = TruthyBool(req.all_day)
        /\ IsSet(ek.recurrenceRule) = IsSet(req.recurrence_rule)

\* An event was created from a request with a truthy field, a present falsy
\* field and an absent field.
C25_Witness ==
    /\ last.op = "create_event"
    /\ last.outcome = "ok"
    /\ req.notes = Some("")
    /\ req.location = Some("L1")
    /\ req.url = None
    /\ req.all_day = Some(FALSE)
    /\ req.alarms_minutes_offsets = Some(<<>>)
    /\ calls.setters = {"setTitle_", "setStartDate_", "setEndDate_", "setLocation_", "setCalendar_"}

====
